---- MODULE Spec2Model ----
(***************************************************************************)
(* A model of AnkiConnect.py: the versioned action dispatcher              *)
(* (AnkiConnect.handler, the api decorator, multi) and the non-blocking    *)
(* web server (WebServer, WebClient).                                      *)
(***************************************************************************)
EXTENDS Integers, Sequences, FiniteSets, TLC

VARIABLES
    col,        \* aqt.mw.col: TRUE when a collection is loaded, FALSE when it is None
    request,    \* the request envelope last handed to AnkiConnect.handler
    outcome,    \* what that call of AnkiConnect.handler did
    rsEntry,    \* a registry entry [name, versions] under resolution
    rsVersion,  \* the requested version of that resolution
    rsAnswers,  \* the names the entry answered to at that version
    rsDone,     \* whether the resolution ran
    srvSock,    \* WebServer.sock is not None
    clients,    \* WebServer.clients
    headersOpt, \* WebServer.headersOpt
    backlog,    \* the peers waiting to be accepted
    conns,      \* the peers and their sockets
    tick,       \* what the last WebServer.advance did
    world,      \* the peers there are and the messages they send
    codec       \* a WebServer that builds responses, and what parsing them gives

dispVars == <<col, request, outcome>>
rsVars == <<rsEntry, rsVersion, rsAnswers, rsDone>>
netVars == <<srvSock, clients, headersOpt, backlog, conns, tick, world>>
vars == <<col, request, outcome, rsEntry, rsVersion, rsAnswers, rsDone,
          srvSock, clients, headersOpt, backlog, conns, tick, world, codec>>

(***************************************************************************)
(* Bounds of the model.                                                    *)
(***************************************************************************)
MaxVersion == 6
MaxBatch == 2
MaxAliases == 2
MaxMinVersion == 5
MaxAskedVersion == 10
MaxConns == 2
SendBuf == 64
MaxBuilt == 2
MaxServed == 3

(***************************************************************************)
(* Constants of the program.                                               *)
(***************************************************************************)
API_VERSION == 6

(***************************************************************************)
(* JSON values, each a record tagged by t. The payload of a dict is the    *)
(* set of its <<key, value>> items.                                        *)
(***************************************************************************)
PyNone == [t |-> "null"]
PyStr(s) == [t |-> "str", v |-> s]
PyInt(n) == [t |-> "int", v |-> n]
PyList(s) == [t |-> "list", v |-> s]
PyDict(items) == [t |-> "dict", v |-> items]
EmptyDict == PyDict({})
IsDict(x) == x.t = "dict"
Keys(d) == {item[1] : item \in d.v}

\* dict.get(key, default)
Get(d, key, default) ==
    IF key \in Keys(d) THEN (CHOOSE item \in d.v : item[1] = key)[2] ELSE default

\* d[key] = value
Put(d, key, value) ==
    PyDict({item \in d.v : item[1] # key} \cup {<<key, value>>})

\* The name no alias carries: apiNameLast = None.
NoName == "<None>"

(***************************************************************************)
(* The members of the AnkiConnect object in the order inspect.getmembers   *)
(* yields them (sorted by name). versions is what the api decorator        *)
(* stored; required and optional are the parameters of the function.       *)
(***************************************************************************)
Members == <<
    [name |-> "collection",  api |-> FALSE, versions |-> << >>, required |-> {}, optional |-> {}],
    [name |-> "deckNames",   api |-> TRUE,  versions |-> << >>, required |-> {}, optional |-> {}],
    [name |-> "deleteDecks", api |-> TRUE,  versions |-> << >>, required |-> {"decks"}, optional |-> {"cardsToo"}],
    [name |-> "handler",     api |-> FALSE, versions |-> << >>, required |-> {"request"}, optional |-> {}],
    [name |-> "multi",       api |-> TRUE,  versions |-> << >>, required |-> {"actions"}, optional |-> {}],
    [name |-> "sync",        api |-> TRUE,  versions |-> << >>, required |-> {}, optional |-> {}],
    [name |-> "version",     api |-> TRUE,  versions |-> << >>, required |-> {}, optional |-> {}]
>>

(***************************************************************************)
(* The inner loop of AnkiConnect.handler over the (apiVersion, apiName)    *)
(* pairs of one method: the state is (apiVersionLast, apiNameLast).        *)
(***************************************************************************)
\* A scan that lets the last qualifying pair win.
RECURSIVE VersionScan_LastWins(_, _, _, _)
VersionScan_LastWins(versions, version, apiVersionLast, apiNameLast) ==
    IF versions = << >>
    THEN [apiVersionLast |-> apiVersionLast, apiNameLast |-> apiNameLast]
    ELSE LET apiVersion == Head(versions)[1]
             apiName == Head(versions)[2]
         IN  IF 0 < apiVersion /\ apiVersion <= version
             THEN VersionScan_LastWins(Tail(versions), version, apiVersion, apiName)
             ELSE VersionScan_LastWins(Tail(versions), version, apiVersionLast, apiNameLast)

RECURSIVE VersionScan(_, _, _, _)
VersionScan(versions, version, apiVersionLast, apiNameLast) ==
    IF versions = << >>
    THEN [apiVersionLast |-> apiVersionLast, apiNameLast |-> apiNameLast]
    ELSE LET apiVersion == Head(versions)[1]
             apiName == Head(versions)[2]
         IN  IF apiVersionLast < apiVersion /\ apiVersion <= version
             THEN VersionScan(Tail(versions), version, apiVersion, apiName)
             ELSE VersionScan(Tail(versions), version, apiVersionLast, apiNameLast)

\* The name a method answers to at a version: apiNameLast when the test of
\* line 340 is reached.
ApiNameLast(methodName, versions, version) ==
    LET last == VersionScan(versions, version, 0, NoName)
    IN  IF last.apiNameLast = NoName /\ last.apiVersionLast = 0
        THEN methodName
        ELSE last.apiNameLast

\* A match that does not look at the api mark of the member.
Answers_AnyMember(member, name, version) ==
    /\ ApiNameLast(member.name, member.versions, version) # NoName
    /\ PyStr(ApiNameLast(member.name, member.versions, version)) = name

\* Whether the method is the one the loop of handler breaks on for name.
Answers(member, name, version) ==
    /\ member.api
    /\ ApiNameLast(member.name, member.versions, version) # NoName
    /\ PyStr(ApiNameLast(member.name, member.versions, version)) = name

\* The index in Members of the method found (0: method is None).
FindMethod(name, version) ==
    LET hits == {i \in 1..Len(Members) : Answers(Members[i], name, version)}
    IN  IF hits = {} THEN 0 ELSE CHOOSE i \in hits : \A j \in hits : i <= j

(***************************************************************************)
(* What a call yields: a returned value or a raised exception, and the     *)
(* names of the api methods whose bodies ran, in order.                    *)
(***************************************************************************)
Returned(v, calls) == [kind |-> "return", value |-> v, calls |-> calls]
Raised(msg, calls) == [kind |-> "raise", value |-> PyStr(msg), calls |-> calls]

\* Binding **params to the parameters of the function.
\* A binding that lets unknown keys pass.
BindsTo_ExtrasPass(member, params) ==
    /\ IsDict(params)
    /\ member.required \subseteq Keys(params)

\* methodInst(**params) binds: every key is a parameter, and every parameter
\* without a default has its key.
BindsTo(member, params) ==
    /\ IsDict(params)
    /\ member.required \subseteq Keys(params)
    /\ Keys(params) \subseteq member.required \cup member.optional

\* F applied to the value of e: a Python expression is evaluated once, where
\* it stands, and its value is what the statements after it use.
Bind(e, F(_)) == CHOOSE y \in {F(x) : x \in {e}} : TRUE

RECURSIVE handler(_, _)
RECURSIVE MapHandler(_, _)

\* A collected list that loses the envelope of its first reply.
Collect_Bare(first, rest) ==
    IF rest.kind = "raise" THEN Raised(rest.value.v, first.calls \o rest.calls)
    ELSE Returned(<<IF IsDict(first.value) /\ Keys(first.value) = {"result", "error"}
                    THEN Get(first.value, "result", PyNone) ELSE first.value>> \o rest.value,
                  first.calls \o rest.calls)

\* The reply of the first sub-request before those of the rest, unless an
\* exception left the map there.
Collect(first, rest) ==
    IF rest.kind = "raise" THEN Raised(rest.value.v, first.calls \o rest.calls)
    ELSE Returned(<<first.value>> \o rest.value, first.calls \o rest.calls)

\* A map that ends at the first reply carrying an error.
MapRest_StopAtError(first, rest, c) ==
    IF first.kind = "raise" THEN first
    ELSE IF IsDict(first.value) /\ Get(first.value, "error", PyNone) # PyNone
    THEN Returned(<<first.value>>, first.calls)
    ELSE Bind(MapHandler(rest, c), LAMBDA tail : Collect(first, tail))

\* The map once the first sub-call ended: on with the rest, unless an
\* exception left that sub-call.
MapRest(first, rest, c) ==
    IF first.kind = "raise" THEN first
    ELSE Bind(MapHandler(rest, c), LAMBDA tail : Collect(first, tail))

\* list(map(self.handler, actions))
MapHandler(actions, c) ==
    IF actions = << >> THEN Returned(<< >>, << >>)
    ELSE Bind(handler(Head(actions), c), LAMBDA first : MapRest(first, Tail(actions), c))

\* AnkiConnect.multi once the map ended.
MultiResult(m) ==
    IF m.kind = "raise" THEN Raised(m.value.v, <<"multi">> \o m.calls)
    ELSE Returned(PyList(m.value), <<"multi">> \o m.calls)

\* AnkiConnect.multi
Multi(actions, c) ==
    IF actions.t # "list" THEN Raised("object is not iterable", <<"multi">>)
    ELSE Bind(MapHandler(actions.v, c), LAMBDA m : MultiResult(m))

\* The body of an api method, its arguments bound.
Body(member, params, c) ==
    CASE member.name = "version" -> Returned(PyInt(API_VERSION), <<"version">>)
      [] member.name = "sync" -> Returned(PyNone, <<"sync">>)
      [] member.name = "deckNames" ->
            IF c THEN Returned(PyList(<<PyStr("Default")>>), <<"deckNames">>)
            ELSE Raised("collection is not available", <<"deckNames">>)
      [] member.name = "deleteDecks" ->
            IF c THEN Returned(PyNone, <<"deleteDecks">>)
            ELSE Raised("collection is not available", <<"deleteDecks">>)
      [] member.name = "multi" -> Multi(Get(params, "actions", PyNone), c)

\* methodInst(**params)
Invoke(member, params, c) ==
    IF BindsTo(member, params) THEN Body(member, params, c)
    ELSE Raised("unexpected arguments", << >>)

\* Lines 344-347 once the lookup ended with the idx-th member (0: None).
CallFound(idx, req, c) ==
    IF idx = 0 THEN Raised("unsupported action", << >>)
    ELSE Invoke(Members[idx], Get(req, "params", EmptyDict), c)

\* Lines 325-347: the lookup, then the method is called or the exception raised.
Call(req, c) ==
    CallFound(FindMethod(Get(req, "action", PyStr("")), Get(req, "version", PyInt(4)).v),
              req, c)

\* An unwrap that leaves version 4 wrapped.
Unwrap_Below4(reply, version) ==
    IF version.v < 4 THEN Get(reply, "result", PyNone) ELSE reply

\* Lines 349-350: the reply once the call returned.
Unwrap(reply, version) == IF version.v <= 4 THEN Get(reply, "result", PyNone) ELSE reply

\* An exception handler that drops the exception.
OnException_Dropped(reply, e) == reply

\* Lines 352-353: the reply once the call raised.
OnException(reply, e) == Put(reply, "error", e)

\* Line 322
NewReply == PyDict({<<"result", PyNone>>, <<"error", PyNone>>})

\* A handler without the try block: what the call raises leaves it.
ReplyTo_NoTry(req, call) ==
    IF call.kind = "raise" THEN call
    ELSE Returned(Unwrap(Put(NewReply, "result", call.value),
                         Get(req, "version", PyInt(4))), call.calls)

\* Lines 347-360: what handler returns once the call ended.
ReplyTo(req, call) ==
    IF call.kind = "raise"
    THEN Returned(OnException(NewReply, call.value), call.calls)
    ELSE Returned(Unwrap(Put(NewReply, "result", call.value),
                         Get(req, "version", PyInt(4))), call.calls)

\* AnkiConnect.handler (API_LOG_PATH is None: nothing is logged). request.get
\* is outside the try block: a request that is no dict raises.
handler(req, c) ==
    IF ~IsDict(req) THEN Raised("object has no attribute get", << >>)
    ELSE Bind(Call(req, c), LAMBDA call : ReplyTo(req, call))

(***************************************************************************)
(* The requests the model hands to the dispatcher.                         *)
(***************************************************************************)
\* A key that is given carries <<value>>, one that is left out << >>.
Envelope(a, v, p) ==
    PyDict({<<"action", PyStr(a[i])>> : i \in DOMAIN a} \cup
           {<<"version", PyInt(v[i])>> : i \in DOMAIN v} \cup
           {<<"params", p[i]>> : i \in DOMAIN p})

NotADict == PyList(<< >>)

Versions == {<< >>} \cup {<<n>> : n \in 3..MaxVersion}

LeafParams == {<< >>, <<EmptyDict>>, <<PyInt(1)>>, <<PyDict({<<"bogus", PyInt(1)>>})>>,
               <<PyDict({<<"decks", PyList(<< >>)>>})>>,
               <<PyDict({<<"decks", PyList(<< >>)>>, <<"bogus", PyInt(1)>>})>>,
               <<PyDict({<<"decks", PyList(<< >>)>>, <<"cardsToo", PyInt(1)>>})>>}

LeafRequests ==
    {Envelope(a, v, p) :
        a \in {<< >>, <<"version">>, <<"sync">>, <<"deckNames">>, <<"deleteDecks">>,
               <<"handler">>, <<"nope">>},
        v \in Versions, p \in LeafParams}

SubRequests ==
    {Envelope(a, v, p) : a \in {<<"version">>, <<"sync">>, <<"deckNames">>, <<"nope">>},
                         v \in {<< >>, <<API_VERSION>>},
                         p \in {<< >>, <<PyDict({<<"bogus", PyInt(1)>>})>>}}
    \cup {NotADict}

Batches == UNION {[1..n -> SubRequests] : n \in 0..MaxBatch}

MultiRequests ==
    {Envelope(<<"multi">>, v, <<PyDict({<<"actions", PyList(b)>>})>>) :
        v \in Versions, b \in Batches}
    \cup {Envelope(<<"multi">>, v, <<PyDict({<<"actions", PyInt(1)>>})>>) : v \in Versions}

Requests == LeafRequests \cup MultiRequests \cup {NotADict}

NoOutcome == [kind |-> "none", value |-> PyNone, calls |-> << >>]

(***************************************************************************)
(* The dispatcher. AnkiConnect.handler keeps no state between calls (the   *)
(* log is off), so a behaviour is one request, the host application        *)
(* loading or unloading its collection before it, and the call.            *)
(***************************************************************************)
\* The parts of the state a specification does not use.
RsIdle ==
    /\ rsEntry = [name |-> "", versions |-> << >>]
    /\ rsVersion = 0
    /\ rsAnswers = {}
    /\ rsDone = FALSE

CodecIdle == codec = << >>

NetIdle ==
    /\ srvSock = FALSE
    /\ clients = << >>
    /\ headersOpt = << >>
    /\ backlog = << >>
    /\ conns = << >>
    /\ tick = << >>
    /\ world = << >>

InitDispatch ==
    /\ col \in BOOLEAN
    /\ request \in Requests
    /\ outcome = NoOutcome
    /\ RsIdle
    /\ NetIdle
    /\ CodecIdle

HandlerCall ==
    /\ outcome = NoOutcome
    /\ outcome' = handler(request, col)
    /\ UNCHANGED <<col, request, rsVars, netVars, codec>>

ProfileChange ==
    /\ outcome = NoOutcome
    /\ col' = ~col
    /\ UNCHANGED <<request, outcome, rsVars, netVars, codec>>

NextDispatch == HandlerCall \/ ProfileChange

SpecDispatch == InitDispatch /\ [][NextDispatch]_vars

(***************************************************************************)
(* Name resolution on its own: a method decorated with api and its pairs,  *)
(* asked for at a version, and the names the loop of handler matches it    *)
(* under.                                                                  *)
(***************************************************************************)
AliasPairs == {<<v, a>> : v \in (-1)..MaxMinVersion, a \in {"foo", "bar"}}
AliasSeqs == UNION {[1..n -> AliasPairs] : n \in 0..MaxAliases}
AskedNames == {"foo_v1", "foo", "bar", "other", ""}

InitResolve ==
    /\ rsEntry \in [name : {"foo_v1"}, versions : AliasSeqs]
    /\ rsVersion \in 0..MaxAskedVersion
    /\ rsAnswers = {}
    /\ rsDone = FALSE
    /\ col = TRUE
    /\ request = NotADict
    /\ outcome = NoOutcome
    /\ NetIdle
    /\ CodecIdle

Resolve ==
    /\ ~rsDone
    /\ rsAnswers' = {n \in AskedNames :
            Answers([name |-> rsEntry.name, api |-> TRUE, versions |-> rsEntry.versions],
                    PyStr(n), rsVersion)}
    /\ rsDone' = TRUE
    /\ UNCHANGED <<rsEntry, rsVersion, dispVars, netVars, codec>>

NextResolve == Resolve

SpecResolve == InitResolve /\ [][NextResolve]_vars

(***************************************************************************)
(* Byte strings. A buffer is a string; data[a:b] is Slice(data, a, b).     *)
(***************************************************************************)
Min(a, b) == IF a <= b THEN a ELSE b
Max(a, b) == IF a >= b THEN a ELSE b

\* data[a:b] for 0 <= a
Slice(data, a, b) ==
    IF Min(b, Len(data)) <= a THEN "" ELSE SubSeq(data, a + 1, Min(b, Len(data)))

\* data[a:b] as Python cuts it, a negative b counting from the end.
PySlice(data, a, b) ==
    Slice(data, a, IF b < 0 THEN Max(Len(data) + b, 0) ELSE b)

\* data[a:]
From(data, a) == Slice(data, a, Len(data))

Least(at) == IF at = {} THEN -1 ELSE CHOOSE i \in at : \A j \in at : i <= j
Greatest(at) == IF at = {} THEN -1 ELSE CHOOSE i \in at : \A j \in at : i >= j

\* data.find(sep, start): the offset of the first occurrence of sep at or
\* after start, or -1.
FindFrom(data, sep, start) ==
    Least({i \in start..(Len(data) - Len(sep)) : Slice(data, i, i + Len(sep)) = sep})

Find(data, sep) == FindFrom(data, sep, 0)

\* data.split(sep): the pieces between all the occurrences of sep; SplitFrom
\* gives those of data[start:], SplitAt once the next occurrence is found at i.
RECURSIVE SplitFrom(_, _, _)
SplitAt(data, sep, start, i) ==
    IF i < 0 THEN <<From(data, start)>>
    ELSE <<Slice(data, start, i)>> \o SplitFrom(data, sep, i + Len(sep))

SplitFrom(data, sep, start) ==
    Bind(FindFrom(data, sep, start), LAMBDA i : SplitAt(data, sep, start, i))

Split(data, sep) == SplitFrom(data, sep, 0)

\* data.split(sep, 1): at most two pieces, cut at the first occurrence.
SplitOnceAt(data, sep, i) ==
    IF i < 0 THEN <<data>> ELSE <<Slice(data, 0, i), From(data, i + Len(sep))>>

SplitOnce(data, sep) == Bind(Find(data, sep), LAMBDA i : SplitOnceAt(data, sep, i))

LowerChar(ch) ==
    CASE ch = "A" -> "a" [] ch = "B" -> "b" [] ch = "C" -> "c" [] ch = "D" -> "d"
      [] ch = "E" -> "e" [] ch = "F" -> "f" [] ch = "G" -> "g" [] ch = "H" -> "h"
      [] ch = "I" -> "i" [] ch = "J" -> "j" [] ch = "K" -> "k" [] ch = "L" -> "l"
      [] ch = "M" -> "m" [] ch = "N" -> "n" [] ch = "O" -> "o" [] ch = "P" -> "p"
      [] ch = "Q" -> "q" [] ch = "R" -> "r" [] ch = "S" -> "s" [] ch = "T" -> "t"
      [] ch = "U" -> "u" [] ch = "V" -> "v" [] ch = "W" -> "w" [] ch = "X" -> "x"
      [] ch = "Y" -> "y" [] ch = "Z" -> "z" [] OTHER -> ch

\* data.lower(); LowerFrom gives that of data[i:].
RECURSIVE LowerFrom(_, _)
LowerFrom(data, i) ==
    IF i >= Len(data) THEN "" ELSE LowerChar(Slice(data, i, i + 1)) \o LowerFrom(data, i + 1)

Lower(data) == LowerFrom(data, 0)

Digits == <<"0", "1", "2", "3", "4", "5", "6", "7", "8", "9">>
IsDigit(ch) == \E d \in 1..10 : Digits[d] = ch
DigitValue(ch) == (CHOOSE d \in 1..10 : Digits[d] = ch) - 1

\* data.strip() of blanks: from the first to the last byte that is no blank.
Trim(data, at) == IF at = {} THEN "" ELSE Slice(data, Least(at), Greatest(at) + 1)

Strip(data) == Trim(data, {i \in 0..(Len(data) - 1) : Slice(data, i, i + 1) # " "})

\* Whether int(data) returns: an optional sign and digits, blanks around.
AllDigits(digits) ==
    /\ digits # ""
    /\ \A i \in 0..(Len(digits) - 1) : IsDigit(Slice(digits, i, i + 1))

Unsigned(body) == IF Slice(body, 0, 1) \in {"+", "-"} THEN From(body, 1) ELSE body

IsInt(data) == AllDigits(Unsigned(Strip(data)))

\* The number the first n digits write.
RECURSIVE DigitsValue(_, _)
DigitsValue(digits, n) ==
    IF n = 0 THEN 0
    ELSE 10 * DigitsValue(digits, n - 1) + DigitValue(Slice(digits, n - 1, n))

\* int(data) where it returns
Magnitude(digits) == DigitsValue(digits, Len(digits))

Signed(body) ==
    IF Slice(body, 0, 1) = "-" THEN 0 - Magnitude(Unsigned(body))
    ELSE Magnitude(Unsigned(body))

IntOf(data) == Signed(Strip(data))

\* str(n) for n >= 0
RECURSIVE StrOf(_)
StrOf(n) == IF n < 10 THEN Digits[n + 1] ELSE StrOf(n \div 10) \o Digits[(n % 10) + 1]

(***************************************************************************)
(* WebClient.parseRequest. The headers dict is the sequence of its items   *)
(* <<name, value>> in insertion order; the value None is NoValue.          *)
(***************************************************************************)
CRLF == "\r\n"
NoValue == <<"None">>
HasValue(x) == x # NoValue

\* A dict that keeps the old item beside the new one.
SetItem_Appends(items, name, value) == Append(items, <<name, value>>)

\* headers[name] = value
RECURSIVE SetItem(_, _, _)
SetItem(items, name, value) ==
    IF items = << >> THEN << <<name, value>> >>
    ELSE IF Head(items)[1] = name THEN << <<name, value>> >> \o Tail(items)
    ELSE <<Head(items)>> \o SetItem(Tail(items), name, value)

HasItem(items, name) == \E i \in DOMAIN items : items[i][1] = name
ItemOf(items, name) == items[CHOOSE i \in DOMAIN items : items[i][1] = name][2]

\* Lines 168-169: the line is cut at every ": "; the value is the second piece.
WithPair(headers, pair) ==
    SetItem(headers, Lower(pair[1]), IF Len(pair) > 1 THEN <<pair[2]>> ELSE NoValue)

\* Lines 166-169: one dict entry per line of the header block.
RECURSIVE ParseHeaders(_, _)
ParseHeaders(lines, headers) ==
    IF lines = << >> THEN headers
    ELSE ParseHeaders(Tail(lines),
             Bind(Split(Head(lines), ": "), LAMBDA pair : WithPair(headers, pair)))

Incomplete == [kind |-> "none", headers |-> << >>, body |-> "", length |-> 0]

\* Lines 173-179
Framed(data, headers, headerLength, bodyLength) ==
    IF headerLength + bodyLength > Len(data) THEN Incomplete
    ELSE [kind |-> "request", headers |-> headers,
          body |-> PySlice(data, headerLength, headerLength + bodyLength),
          length |-> headerLength + bodyLength]

\* Line 172: int(headers.get('content-length', 0)), which raises on a value
\* that is None or no number.
WithLength(data, headers, headerLength) ==
    IF ~HasItem(headers, "content-length") THEN Framed(data, headers, headerLength, 0)
    ELSE IF ~HasValue(ItemOf(headers, "content-length"))
            \/ ~IsInt(ItemOf(headers, "content-length")[1])
    THEN [kind |-> "raise", headers |-> headers, body |-> "", length |-> 0]
    ELSE Framed(data, headers, headerLength, IntOf(ItemOf(headers, "content-length")[1]))

\* Lines 163-171
Parsed(data, parts) ==
    IF Len(parts) = 1 THEN Incomplete
    ELSE Bind(ParseHeaders(Split(parts[1], CRLF), << >>),
              LAMBDA headers : WithLength(data, headers, Len(parts[1]) + 4))

\* WebClient.parseRequest: (None, 0), (WebRequest(headers, body), totalLength),
\* or the exception int() raises.
parseRequest(data) ==
    Bind(SplitOnce(data, CRLF \o CRLF), LAMBDA parts : Parsed(data, parts))

(***************************************************************************)
(* json.loads and json.dumps. The bodies the peers of this model send are  *)
(* the ones listed; every other byte string they can produce is not JSON.  *)
(***************************************************************************)
VersionBody == "{\"action\": \"version\", \"version\": 6}"
DeckNamesBody == "{\"action\": \"deckNames\", \"version\": 6}"

JsonLoads(body) ==
    CASE body = "{}" -> [ok |-> TRUE, value |-> EmptyDict]
      [] body = "5" -> [ok |-> TRUE, value |-> PyInt(5)]
      [] body = "[]" -> [ok |-> TRUE, value |-> PyList(<< >>)]
      [] body = VersionBody -> [ok |-> TRUE, value |-> Envelope(<<"version">>, <<6>>, << >>)]
      [] body = DeckNamesBody ->
            [ok |-> TRUE, value |-> Envelope(<<"deckNames">>, <<6>>, << >>)]
      [] OTHER -> [ok |-> FALSE, value |-> PyNone]

\* The keys of a dict in insertion order: a reply is built result first.
KeyOrder == <<"result", "error", "action", "version", "params">>

RECURSIVE JsonDumps(_)
RECURSIVE DumpList(_)
RECURSIVE DumpItems(_, _)
DumpList(values) ==
    IF values = << >> THEN ""
    ELSE JsonDumps(Head(values)) \o
         (IF Tail(values) = << >> THEN "" ELSE ", " \o DumpList(Tail(values)))

DumpItems(d, keys) ==
    IF keys = << >> THEN ""
    ELSE "\"" \o Head(keys) \o "\": " \o JsonDumps(Get(d, Head(keys), PyNone)) \o
         (IF Tail(keys) = << >> THEN "" ELSE ", " \o DumpItems(d, Tail(keys)))

JsonDumps(x) ==
    CASE x.t = "null" -> "null"
      [] x.t = "int" -> StrOf(x.v)
      [] x.t = "str" -> "\"" \o x.v \o "\""
      [] x.t = "list" -> "[" \o DumpList(x.v) \o "]"
      [] x.t = "dict" ->
            "{" \o DumpItems(x, SelectSeq(KeyOrder, LAMBDA k : k \in Keys(x))) \o "}"

(***************************************************************************)
(* WebServer: the response headers and handlerWrapper.                     *)
(***************************************************************************)
\* WebServer.resetHeaders: self.headers
BaseHeaders == <<
    <<"HTTP/1.1 200 OK", NoValue>>,
    <<"Content-Type", <<"text/json">> >>,
    <<"Access-Control-Allow-Origin", <<"*">> >> >>

\* WebServer.getHeaders
getHeaders(opt) == BaseHeaders \o opt

\* Lines 261-265: the header lines of a response.
RECURSIVE HeaderLines(_)
HeaderLines(headers) ==
    IF headers = << >> THEN ""
    ELSE (IF HasValue(Head(headers)[2])
          THEN Head(headers)[1] \o ": " \o Head(headers)[2][1] \o CRLF
          ELSE Head(headers)[1] \o CRLF) \o HeaderLines(Tail(headers))

Banner == "AnkiConnect v." \o StrOf(API_VERSION)

\* Line 252 once self.handler ended: an exception it raised leaves
\* handlerWrapper, which catches ValueError only.
Dumped(reply) ==
    IF reply.kind = "raise" THEN [kind |-> "raise", body |-> "", called |-> TRUE]
    ELSE [kind |-> "return", body |-> JsonDumps(reply.value), called |-> TRUE]

\* A handlerWrapper that lets the ValueError of json.loads pass.
Loaded_Uncaught(params, c) ==
    IF ~params.ok THEN [kind |-> "raise", body |-> "", called |-> FALSE]
    ELSE Bind(handler(params.value, c), LAMBDA reply : Dumped(reply))

\* Lines 250-254 once json.loads ended; called tells whether self.handler ran.
Loaded(params, c) ==
    IF ~params.ok THEN [kind |-> "return", body |-> JsonDumps(PyNone), called |-> FALSE]
    ELSE Bind(handler(params.value, c), LAMBDA reply : Dumped(reply))

\* A handlerWrapper that has no banner: an empty body goes to json.loads.
ResponseBody_NoBanner(req, c) == Loaded(JsonLoads(req.body), c)

\* Lines 247-254: the body of the response.
ResponseBody(req, c) ==
    IF Len(req.body) = 0 THEN [kind |-> "return", body |-> Banner, called |-> FALSE]
    ELSE Loaded(JsonLoads(req.body), c)

\* Lines 256-270: the response bytes and self.headersOpt after setHeader.
Response(b, opt) ==
    [kind |-> "return", resp |-> HeaderLines(getHeaders(opt)) \o CRLF \o b.body, opt |-> opt,
     called |-> b.called]

\* A handlerWrapper that sets Content-Length only where none is set yet.
Wrapped_KeepsLength(b, opt) ==
    IF b.kind = "raise" THEN [kind |-> "raise", resp |-> "", opt |-> opt, called |-> b.called]
    ELSE Response(b, IF HasItem(opt, "Content-Length") THEN opt
                          ELSE SetItem(opt, "Content-Length", <<StrOf(Len(b.body))>>))

\* Lines 256-270 once the body is there.
Wrapped(b, opt) ==
    IF b.kind = "raise" THEN [kind |-> "raise", resp |-> "", opt |-> opt, called |-> b.called]
    ELSE Response(b, SetItem(opt, "Content-Length", <<StrOf(Len(b.body))>>))

\* WebServer.handlerWrapper
handlerWrapper(req, opt, c) == Bind(ResponseBody(req, c), LAMBDA b : Wrapped(b, opt))

(***************************************************************************)
(* The server and its peers.                                               *)
(*   srvSock    WebServer.sock is not None                                 *)
(*   clients    WebServer.clients: a WebClient is [id, open, readBuff,     *)
(*              writeBuff], open meaning sock is not None                  *)
(*   headersOpt WebServer.headersOpt                                       *)
(*   backlog    the peers the listening socket has not accepted yet        *)
(*   conns      per peer, its side of the connection and the socket:       *)
(*              state   idle, pending (connected, not accepted), accepted  *)
(*              todo    the bytes the peer has still to send               *)
(*              inbox   the bytes that arrived and were not yet received   *)
(*              eof     the peer shut its sending side down                *)
(*              reset   no, seen (select reports it, recv and send fail),  *)
(*                      late (it arrives after the select of the next      *)
(*                      advance: its send fails)                           *)
(*              room    the bytes the send buffer of the socket takes      *)
(*              delivered  the bytes sent to the peer                      *)
(*              closed  the server closed the socket                       *)
(*              handled how often the request handler was called           *)
(*              flushed the server sent the last byte of writeBuff         *)
(*              msg     all the bytes the peer set out to send             *)
(*              recvs   how often recv returned bytes                      *)
(*              got     the WebRequest last handed to the request handler  *)
(*              dispatched  how often handlerWrapper called self.handler   *)
(*              rcvd    the bytes recv has returned, in the order returned *)
(*              queued  the replies of the request handler, in a row       *)
(*              taken   about the last request taken: readBuff before,     *)
(*                      the length parseRequest returned, readBuff after   *)
(*   tick       about the last WebServer.advance: the clients in the live  *)
(*              set when advanceClients began, those whose advance ran,    *)
(*              those whose recv or send failed, and whether an exception  *)
(*              left the call; the connections the server had closed       *)
(*              before the call, the number of peers that were pending,    *)
(*              the connections it accepted, those in self.clients when    *)
(*              advanceClients began, and those whose advance returned     *)
(*              False                                                      *)
(***************************************************************************)
RecvSize == 1024
NET_BACKLOG == 5

ConnIds == 1..MaxConns

\* What a peer sends: a bare request line, a JSON body that is an envelope,
\* one that is no JSON, one that is JSON but no object, a version request, a
\* content-length that is no number, two requests in a row, and a
\* content-length of zero.
Messages == {
    "G\r\n\r\n",
    "Content-Length: 0\r\n\r\n",
    "Content-Length: 2\r\n\r\n{}",
    "Content-Length: 1\r\n\r\nx",
    "Content-Length: 1\r\n\r\n5",
    "content-length: 35\r\n\r\n" \o VersionBody,
    "Content-Length: x\r\n\r\n",
    "G\r\n\r\nG\r\n\r\n" }

\* The messages of a peer whose bytes arrive in any pieces: those above, a
\* content-length line that has no value, a negative content-length, and a
\* header whose value holds a colon and a blank.
FrameMessages == Messages \cup {
    "content-length\r\n\r\n",
    "Content-Length: -1\r\n\r\n",
    "Host: a: b\r\n\r\n" }

\* The messages of the peers where several of them are connected at once.
ShortMessages == {"G\r\n\r\n", "Content-Length: 1\r\n\r\nx", "Content-Length: x\r\n\r\n"}

\* The length of the longest message.
MaxMessage ==
    CHOOSE n \in {Len(m) : m \in FrameMessages} : \A m \in FrameMessages : Len(m) <= n

NewClient(id) == [id |-> id, open |-> TRUE, readBuff |-> "", writeBuff |-> ""]

\* A close that leaves the buffers as they are.
ClientClose_KeepsBuffers(cl) == [cl EXCEPT !.open = FALSE]

\* WebClient.close
ClientClose(cl) == [cl EXCEPT !.open = FALSE, !.readBuff = "", !.writeBuff = ""]

\* No WebRequest yet.
NoRequest == [headers |-> << >>, body |-> ""]

IdleConn == [state |-> "idle", todo |-> "", sent |-> 0, inbox |-> "", eof |-> FALSE,
             reset |-> "no", room |-> SendBuf, delivered |-> "", closed |-> FALSE,
             handled |-> 0, flushed |-> FALSE, msg |-> "", recvs |-> 0,
             got |-> NoRequest, dispatched |-> 0, rcvd |-> "", queued |-> "",
             taken |-> [buff |-> "", length |-> 0, rest |-> ""]]

\* data[a:] as Python cuts it, a negative a counting from the end.
PyFrom(data, a) == From(data, IF a < 0 THEN Max(Len(data) + a, 0) ELSE a)

Step(cl, cn, opt, result, failed) ==
    [cl |-> cl, cn |-> cn, opt |-> opt, result |-> result, failed |-> failed]

\* Line 140 once the request handler ended.
Replied(cl, cn, opt, w) ==
    IF w.kind = "raise"
    THEN Step(cl, [cn EXCEPT !.dispatched = @ + (IF w.called THEN 1 ELSE 0)],
              opt, "raise", FALSE)
    ELSE Step([cl EXCEPT !.writeBuff = @ \o w.resp],
              [cn EXCEPT !.dispatched = @ + (IF w.called THEN 1 ELSE 0),
                         !.queued = @ \o w.resp],
              w.opt, "go", FALSE)

\* An advance that forgets the bytes of a request that is not complete yet.
Extracted_DropsPartial(cl, cn, opt, c, buff, parsed) ==
    IF parsed.kind = "raise" THEN Step([cl EXCEPT !.readBuff = buff], cn, opt, "raise", FALSE)
    ELSE IF parsed.kind = "none"
    THEN Step([cl EXCEPT !.readBuff = ""], cn, opt, "go", FALSE)
    ELSE Bind(handlerWrapper(parsed, opt, c),
              LAMBDA w : Replied([cl EXCEPT !.readBuff = PyFrom(buff, parsed.length)],
                                 [cn EXCEPT !.handled = @ + 1,
                                            !.got = [headers |-> parsed.headers,
                                                     body |-> parsed.body],
                                            !.taken = [buff |-> buff,
                                                       length |-> parsed.length,
                                                       rest |-> PyFrom(buff, parsed.length)]],
                                 opt, w))

\* Lines 137-140 once parseRequest ended; buff is readBuff after line 135.
Extracted(cl, cn, opt, c, buff, parsed) ==
    IF parsed.kind = "raise" THEN Step([cl EXCEPT !.readBuff = buff], cn, opt, "raise", FALSE)
    ELSE IF parsed.kind = "none"
    THEN Step([cl EXCEPT !.readBuff = buff], cn, opt, "go", FALSE)
    ELSE Bind(handlerWrapper(parsed, opt, c),
              LAMBDA w : Replied([cl EXCEPT !.readBuff = PyFrom(buff, parsed.length)],
                                 [cn EXCEPT !.handled = @ + 1,
                                            !.got = [headers |-> parsed.headers,
                                                     body |-> parsed.body],
                                            !.taken = [buff |-> buff,
                                                       length |-> parsed.length,
                                                       rest |-> PyFrom(buff, parsed.length)]],
                                 opt, w))

\* Lines 135-140
Received(cl, cn, opt, c, buff) ==
    Bind(parseRequest(buff), LAMBDA parsed : Extracted(cl, cn, opt, c, buff, parsed))

\* An advance that goes on to send what is queued when the peer has closed.
ReadStep_KeepsReply(cl, cn, opt, c) ==
    IF cn.reset = "seen"
    THEN Step(cl, [cn EXCEPT !.reset = "no", !.eof = TRUE, !.inbox = ""], opt, "raise", TRUE)
    ELSE IF cn.inbox = ""
    THEN (IF cl.writeBuff # "" THEN Step(cl, cn, opt, "go", FALSE)
          ELSE Step(ClientClose(cl), [cn EXCEPT !.closed = TRUE], opt, "False", FALSE))
    ELSE Bind(cl.readBuff \o Slice(cn.inbox, 0, RecvSize),
              LAMBDA buff : Received(cl, [cn EXCEPT !.inbox = From(cn.inbox, RecvSize),
                                                    !.recvs = @ + 1,
                                                    !.rcvd = @ \o Slice(cn.inbox, 0, RecvSize)],
                                     opt, c, buff))

\* An advance that puts the bytes received in front of readBuff.
ReadStep_Prepends(cl, cn, opt, c) ==
    IF cn.reset = "seen"
    THEN Step(cl, [cn EXCEPT !.reset = "no", !.eof = TRUE, !.inbox = ""], opt, "raise", TRUE)
    ELSE IF cn.inbox = ""
    THEN Step(ClientClose(cl), [cn EXCEPT !.closed = TRUE], opt, "False", FALSE)
    ELSE Bind(Slice(cn.inbox, 0, RecvSize) \o cl.readBuff,
              LAMBDA buff : Received(cl, [cn EXCEPT !.inbox = From(cn.inbox, RecvSize),
                                                    !.recvs = @ + 1,
                                                    !.rcvd = @ \o Slice(cn.inbox, 0, RecvSize)],
                                     opt, c, buff))

\* Lines 129-140 once the socket is readable.
ReadStep(cl, cn, opt, c) ==
    IF cn.reset = "seen"
    THEN \* recv raises; the error is reported once, then the socket reads as closed
         Step(cl, [cn EXCEPT !.reset = "no", !.eof = TRUE, !.inbox = ""], opt, "raise", TRUE)
    ELSE IF cn.inbox = ""
    THEN \* not msg: the peer closed
         Step(ClientClose(cl), [cn EXCEPT !.closed = TRUE], opt, "False", FALSE)
    ELSE Bind(cl.readBuff \o Slice(cn.inbox, 0, RecvSize),
              LAMBDA buff : Received(cl, [cn EXCEPT !.inbox = From(cn.inbox, RecvSize),
                                                    !.recvs = @ + 1,
                                                    !.rcvd = @ \o Slice(cn.inbox, 0, RecvSize)],
                                     opt, c, buff))

\* An advance that closes after the first send, whatever was accepted.
Sent_ClosesEarly(cl, cn, opt, length) ==
    Step(ClientClose(cl),
         [cn EXCEPT !.room = @ - length, !.closed = TRUE, !.flushed = TRUE,
                    !.delivered = @ \o Slice(cl.writeBuff, 0, length)],
         opt, "False", FALSE)

\* Lines 143-147 once send returned length.
Sent(cl, cn, opt, length) ==
    IF From(cl.writeBuff, length) = ""
    THEN Step(ClientClose(cl),
              [cn EXCEPT !.room = @ - length, !.closed = TRUE, !.flushed = TRUE,
                         !.delivered = @ \o Slice(cl.writeBuff, 0, length)],
              opt, "False", FALSE)
    ELSE Step([cl EXCEPT !.writeBuff = From(cl.writeBuff, length)],
              [cn EXCEPT !.room = @ - length,
                         !.delivered = @ \o Slice(cl.writeBuff, 0, length)],
              opt, "True", FALSE)

\* Lines 142-147 once the socket is writable and writeBuff is not empty.
WriteStep(cl, cn, opt) ==
    IF cn.reset # "no"
    THEN \* send raises
         Step(cl, [cn EXCEPT !.reset = "no", !.eof = TRUE, !.inbox = ""], opt, "raise", TRUE)
    ELSE Sent(cl, cn, opt, Min(cn.room, Len(cl.writeBuff)))

\* An advance that gives up a connection with nothing to send.
AfterRead_GivesUp(read, wlist) ==
    IF read.result # "go" THEN read
    ELSE IF wlist /\ read.cl.writeBuff # "" THEN WriteStep(read.cl, read.cn, read.opt)
    ELSE Step(read.cl, [read.cn EXCEPT !.reset = IF @ = "late" THEN "seen" ELSE @],
              read.opt, "False", FALSE)

\* Lines 142-149 once the read part ended; wlist is what select reported.
AfterRead(read, wlist) ==
    IF read.result # "go" THEN read
    ELSE IF wlist /\ read.cl.writeBuff # "" THEN WriteStep(read.cl, read.cn, read.opt)
    ELSE Step(read.cl, [read.cn EXCEPT !.reset = IF @ = "late" THEN "seen" ELSE @],
              read.opt, "True", FALSE)

\* WebClient.advance: result is what it returns, or raise when an exception
\* leaves it.
ClientAdvance(cl, cn, opt, c) ==
    IF ~cl.open THEN Step(cl, cn, opt, "False", FALSE)
    ELSE Bind(IF cn.inbox # "" \/ cn.eof \/ cn.reset = "seen"
              THEN ReadStep(cl, cn, opt, c)
              ELSE Step(cl, cn, opt, "go", FALSE),
              LAMBDA read : AfterRead(read, cn.room > 0 \/ cn.reset = "seen"))

\* list(filter(...)): the clients whose advance returned True, in order.
RECURSIVE Kept(_, _)
Kept(cls, keep) ==
    IF cls = << >> THEN << >>
    ELSE (IF Head(keep) THEN <<Head(cls)>> ELSE << >>) \o Kept(Tail(cls), Tail(keep))

\* WebServer.advanceClients from the i-th client on: st holds the clients
\* (each as its advance left it), the flags filter keeps, and the rest of
\* the state. An exception ends the call before self.clients is assigned.
RECURSIVE AdvanceFrom(_, _, _)

\* The i-th client advanced with r.
Advanced(i, st, id, r) ==
    [st EXCEPT !.clients[i] = r.cl, !.conns[id] = r.cn, !.opt = r.opt,
               !.advanced = @ \cup {id},
               !.failed = IF r.failed THEN @ \cup {id} ELSE @,
               !.finished = IF r.result = "False" THEN @ \cup {id} ELSE @,
               !.keep[i] = (r.result = "True"),
               !.raised = (r.result = "raise")]

\* The filter goes on with the next client unless an exception ended it.
Onward(i, st, c) == IF st.raised THEN st ELSE AdvanceFrom(i + 1, st, c)

AdvanceFrom(i, st, c) ==
    IF i > Len(st.clients) THEN [st EXCEPT !.clients = Kept(st.clients, st.keep)]
    ELSE Bind(ClientAdvance(st.clients[i], st.conns[st.clients[i].id], st.opt, c),
              LAMBDA r : Bind(Advanced(i, st, st.clients[i].id, r),
                              LAMBDA next : Onward(i, next, c)))

(***************************************************************************)
(* The server after AnkiConnect.__init__ (listen succeeded), the timer     *)
(* calling WebServer.advance, and what the peers and the network do        *)
(* between two calls.                                                      *)
(***************************************************************************)
NoTick == [live |-> {}, advanced |-> {}, failed |-> {}, raised |-> FALSE,
           wasClosed |-> {}, pending |-> 0, accepted |-> {}, iterated |-> {},
           finished |-> {}]

\* WebServer.__init__ and listen
Listening ==
    /\ srvSock = TRUE
    /\ clients = << >>
    /\ headersOpt = << >>
    /\ backlog = << >>
    /\ conns = [id \in ConnIds |-> IdleConn]
    /\ tick = NoTick
    /\ col = TRUE
    /\ request = NotADict
    /\ outcome = NoOutcome
    /\ RsIdle
    /\ CodecIdle

\* Several peers at once, each with a short message.
InitNet ==
    Listening /\ world = [peers |-> MaxConns, messages |-> ShortMessages, cuts |-> "ends"]

\* One peer, with any of the messages.
InitOne == Listening /\ world = [peers |-> 1, messages |-> Messages, cuts |-> "ends"]

\* One peer, whose message arrives cut into pieces in every way.
InitFrame == Listening /\ world = [peers |-> 1, messages |-> FrameMessages, cuts |-> "all"]

\* WebServer.acceptClients
Accepted ==
    IF backlog = << >> THEN [clients |-> clients, backlog |-> backlog, conns |-> conns]
    ELSE [clients |-> Append(clients, NewClient(Head(backlog))),
          backlog |-> Tail(backlog),
          conns |-> [conns EXCEPT ![Head(backlog)].state = "accepted"]]

\* The state advanceClients starts from.
Start(acc) ==
    [clients |-> acc.clients, keep |-> [k \in 1..Len(acc.clients) |-> TRUE],
     conns |-> acc.conns, opt |-> headersOpt,
     advanced |-> {}, failed |-> {}, finished |-> {}, raised |-> FALSE]

\* The connections of a list of clients, and those of them that are open.
ListIds(cls) == {cls[k].id : k \in 1..Len(cls)}
OpenIds(cls) == {cls[k].id : k \in {j \in 1..Len(cls) : cls[j].open}}

\* WebServer.advance once it ended: acc after acceptClients, st after
\* advanceClients.
Ticked(acc, st) ==
    /\ clients' = st.clients
    /\ conns' = st.conns
    /\ headersOpt' = st.opt
    /\ backlog' = acc.backlog
    /\ tick' = [live |-> OpenIds(acc.clients), advanced |-> st.advanced,
                failed |-> st.failed, raised |-> st.raised,
                wasClosed |-> {id \in ConnIds : conns[id].closed},
                pending |-> Len(backlog),
                accepted |-> ListIds(acc.clients) \ ListIds(clients),
                iterated |-> ListIds(acc.clients),
                finished |-> st.finished]

\* WebServer.advance, called by the timer
Tick ==
    /\ srvSock
    /\ \E acc \in {Accepted} :
           \E st \in {AdvanceFrom(1, Start(acc), col)} : Ticked(acc, st)
    /\ UNCHANGED <<srvSock, world, dispVars, rsVars, codec>>

\* A peer connects, with the bytes it is going to send.
Connect(id, msg) ==
    /\ srvSock
    /\ id <= world.peers /\ msg \in world.messages
    /\ conns[id].state = "idle"
    /\ \A j \in ConnIds : j < id => conns[j].state # "idle"
    /\ Len(backlog) < NET_BACKLOG
    /\ conns' = [conns EXCEPT ![id].state = "pending", ![id].todo = msg, ![id].msg = msg]
    /\ backlog' = Append(backlog, id)
    /\ UNCHANGED <<srvSock, clients, headersOpt, tick, world, dispVars, rsVars, codec>>

\* The lengths of the first piece a peer sends; the rest follows in one piece.
FirstCuts(msg) == {2, Len(msg) - 1, Len(msg)}

\* The next n bytes of a peer reach the socket.
PeerSend(id, n) ==
    /\ conns[id].state # "idle"
    /\ ~conns[id].closed /\ ~conns[id].eof /\ conns[id].reset = "no"
    /\ conns[id].todo # ""
    /\ \/ n = Len(conns[id].todo)
       \/ world.cuts = "ends" /\ conns[id].sent = 0 /\ n \in FirstCuts(conns[id].todo)
       \/ world.cuts = "all" /\ n \in 1..Len(conns[id].todo)
    /\ conns' = [conns EXCEPT ![id].inbox = @ \o Slice(conns[id].todo, 0, n),
                              ![id].todo = From(@, n),
                              ![id].sent = @ + n]
    /\ UNCHANGED <<srvSock, clients, headersOpt, backlog, tick, world, dispVars, rsVars, codec>>

\* A peer shuts down its sending side (or closes its socket).
PeerShutdown(id) ==
    /\ conns[id].state # "idle"
    /\ ~conns[id].closed /\ ~conns[id].eof /\ conns[id].reset = "no"
    /\ conns' = [conns EXCEPT ![id].eof = TRUE]
    /\ UNCHANGED <<srvSock, clients, headersOpt, backlog, tick, world, dispVars, rsVars, codec>>

\* The connection of a peer is reset.
PeerReset(id, when) ==
    /\ conns[id].state = "accepted"
    /\ ~conns[id].closed /\ ~conns[id].eof /\ conns[id].reset = "no"
    /\ conns' = [conns EXCEPT ![id].reset = when]
    /\ UNCHANGED <<srvSock, clients, headersOpt, backlog, tick, world, dispVars, rsVars, codec>>

\* A peer reads what was sent to it: the send buffer is free again.
PeerRead(id) ==
    /\ conns[id].state = "accepted"
    /\ ~conns[id].closed /\ conns[id].reset = "no"
    /\ conns[id].room < SendBuf
    /\ conns' = [conns EXCEPT ![id].room = SendBuf]
    /\ UNCHANGED <<srvSock, clients, headersOpt, backlog, tick, world, dispVars, rsVars, codec>>

Next ==
    \/ Tick
    \/ \E id \in ConnIds, msg \in FrameMessages : Connect(id, msg)
    \/ \E id \in ConnIds, n \in 1..MaxMessage : PeerSend(id, n)
    \/ \E id \in ConnIds : PeerShutdown(id)
    \/ \E id \in ConnIds, when \in {"seen", "late"} : PeerReset(id, when)
    \/ \E id \in ConnIds : PeerRead(id)

Spec == InitNet /\ [][Next]_vars

SpecOne == InitOne /\ [][Next]_vars

\* The timer keeps calling WebServer.advance, and a peer that stays reads
\* what is sent to it.
\* The same server with the one peer whose bytes arrive in any pieces.
SpecFrame == InitFrame /\ [][Next]_vars

FairOne == SpecOne /\ WF_vars(Tick) /\ \A id \in ConnIds : WF_vars(PeerRead(id))

(***************************************************************************)
(* A WebServer that is closed and listens again at any time. The server is *)
(* [sock, clients, conns, backlog]; the peers that were waiting in the     *)
(* backlog of a listening socket that is closed are refused.               *)
(***************************************************************************)
\* Lines 278-279: client.close() for the clients from the k-th on.
RECURSIVE CloseClients(_, _, _)
CloseClients(cls, cns, k) ==
    IF k > Len(cls) THEN cns
    ELSE CloseClients(cls,
                      IF cls[k].open THEN [cns EXCEPT ![cls[k].id].closed = TRUE] ELSE cns,
                      k + 1)

\* A close that forgets the clients without closing them.
CloseServer_DropsClients(sv) ==
    [sock |-> FALSE, clients |-> << >>, conns |-> sv.conns, backlog |-> << >>]

\* WebServer.close
CloseServer(sv) ==
    [sock |-> FALSE,
     clients |-> << >>,
     conns |-> CloseClients(sv.clients,
                            [id \in ConnIds |->
                                IF \E i \in DOMAIN sv.backlog : sv.backlog[i] = id
                                THEN [sv.conns[id] EXCEPT !.state = "refused"]
                                ELSE sv.conns[id]],
                            1),
     backlog |-> << >>]

Server == [sock |-> srvSock, clients |-> clients, conns |-> conns, backlog |-> backlog]

Becomes(sv) ==
    /\ srvSock' = sv.sock
    /\ clients' = sv.clients
    /\ conns' = sv.conns
    /\ backlog' = sv.backlog

\* WebServer.close, called at any time
ServerClose ==
    /\ \E sv \in {CloseServer(Server)} : Becomes(sv)
    /\ UNCHANGED <<headersOpt, tick, world, dispVars, rsVars, codec>>

\* WebServer.listen: close, then a new listening socket
Listen ==
    /\ \E sv \in {CloseServer(Server)} : Becomes([sv EXCEPT !.sock = TRUE])
    /\ UNCHANGED <<headersOpt, tick, world, dispVars, rsVars, codec>>

\* WebServer.__init__: no socket yet, no clients.
InitClose ==
    /\ srvSock = FALSE
    /\ clients = << >>
    /\ headersOpt = << >>
    /\ backlog = << >>
    /\ conns = [id \in ConnIds |-> IdleConn]
    /\ tick = NoTick
    /\ world = [peers |-> MaxConns, messages |-> {"G\r\n\r\n", "Content-Length: 1\r\n\r\nx"},
                cuts |-> "ends"]
    /\ col = TRUE
    /\ request = NotADict
    /\ outcome = NoOutcome
    /\ RsIdle
    /\ CodecIdle

NextClose ==
    \/ Next
    \/ ServerClose
    \/ Listen

SpecClose == InitClose /\ [][NextClose]_vars

(***************************************************************************)
(* A WebServer that answers one request after the other, each from a fresh *)
(* connection, while the profile (and with it the collection) may change.  *)
(*   codec.opt  self.headersOpt                                            *)
(*   codec.log  per request answered: its body, whether the collection was *)
(*              there, and what handlerWrapper returned                    *)
(***************************************************************************)
\* The bodies of the requests.
ServeBodies == {"", "x", "5", VersionBody, DeckNamesBody}

InitServe ==
    /\ codec = [opt |-> << >>, log |-> << >>]
    /\ col = TRUE
    /\ request = NotADict
    /\ outcome = NoOutcome
    /\ RsIdle
    /\ NetIdle

\* Line 140 of WebClient.advance: the reply of the handler to a request.
Served(w, body) ==
    codec' = [opt |-> w.opt,
              log |-> Append(codec.log,
                             [body |-> body, col |-> col, kind |-> w.kind, resp |-> w.resp])]

Serve(body) ==
    /\ Len(codec.log) < MaxServed
    /\ \E w \in {handlerWrapper([headers |-> << >>, body |-> body], codec.opt, col)} :
           Served(w, body)
    /\ UNCHANGED <<dispVars, rsVars, netVars>>

NextServe ==
    \/ \E body \in ServeBodies : Serve(body)
    \/ ProfileChange

SpecServe == InitServe /\ [][NextServe]_vars

(***************************************************************************)
(* A WebServer that builds responses one after the other, some extra       *)
(* headers set on it, and parseRequest applied to the bytes of a response. *)
(*   codec.opt     self.headersOpt                                         *)
(*   codec.built   how many responses were built                           *)
(*   codec.body    the body of the last response                           *)
(*   codec.resp    the bytes of the last response                          *)
(*   codec.stage   idle, built (a response is there), parsed               *)
(*   codec.parsed  what parseRequest made of codec.resp                    *)
(*   codec.lengths the lengths of the bodies of the responses built        *)
(***************************************************************************)
\* The extra headers setHeader is called with.
ExtraHeaders == {<<"X-Test", "1">>, <<"X-Test", "a: b">>, <<"Vary", "Origin">>}

\* The bodies of the responses.
Bodies == {"", "null", "6", "AnkiConnect v.6", "{\"a\": 1}\r\n\r\nb"}

InitCodec ==
    /\ codec = [opt |-> << >>, built |-> 0, body |-> "", resp |-> "", stage |-> "idle",
                parsed |-> Incomplete, lengths |-> << >>]
    /\ col = TRUE
    /\ request = NotADict
    /\ outcome = NoOutcome
    /\ RsIdle
    /\ NetIdle

\* WebServer.setHeader
SetHeader(name, value) ==
    /\ codec.stage # "built"
    /\ codec' = [codec EXCEPT !.opt = SetItem(@, name, <<value>>), !.stage = "idle"]
    /\ UNCHANGED <<dispVars, rsVars, netVars>>

\* Lines 256-270 of handlerWrapper, for a body.
Built(w, body) ==
    codec' = [codec EXCEPT !.opt = w.opt, !.built = @ + 1, !.body = body,
                           !.resp = w.resp, !.stage = "built", !.parsed = Incomplete,
                           !.lengths = Append(@, Len(body))]

BuildResponse(body) ==
    /\ codec.stage # "built"
    /\ codec.built < MaxBuilt
    /\ \E w \in {Wrapped([kind |-> "return", body |-> body, called |-> FALSE], codec.opt)} : Built(w, body)
    /\ UNCHANGED <<dispVars, rsVars, netVars>>

\* WebClient.parseRequest on the bytes of the response.
Reparse ==
    /\ codec.stage = "built"
    /\ codec' = [codec EXCEPT !.parsed = parseRequest(codec.resp), !.stage = "parsed"]
    /\ UNCHANGED <<dispVars, rsVars, netVars>>

NextCodec ==
    \/ \E h \in ExtraHeaders : SetHeader(h[1], h[2])
    \/ \E body \in Bodies : BuildResponse(body)
    \/ Reparse

SpecCodec == InitCodec /\ [][NextCodec]_vars

(***************************************************************************)
(* Properties of the dispatcher.                                           *)
(***************************************************************************)
Called == outcome.kind # "none"
AskedVersion == Get(request, "version", PyInt(4)).v
IsEnvelope(x) == IsDict(x) /\ Keys(x) = {"result", "error"}
ResultOf(x) == IF IsDict(x) THEN Get(x, "result", PyNone) ELSE PyNone
ErrorOf(x) == IF IsDict(x) THEN Get(x, "error", PyNone) ELSE PyNone
ApiNames == {"deckNames", "deleteDecks", "multi", "sync", "version"}
Range(f) == {f[i] : i \in DOMAIN f}

\* The call of a request (a dict) fails: no method answers, or the method raises.
Fails(req, c) == Call(req, c).kind = "raise"

\* C1: when the handler of a registered action returns normally with value v,
\* a request with version 4 or with no version gets v itself and a request
\* with a version above 4 gets the mapping {result: v, error: null}.
C1_CompatibilityUnwrap ==
    (Called /\ IsDict(request) /\ ~Fails(request, col)) =>
        LET v == Call(request, col).value
        IN  /\ outcome.kind = "return"
            /\ ("version" \notin Keys(request) \/ AskedVersion = 4) => outcome.value = v
            /\ AskedVersion > 4 =>
                   outcome.value = PyDict({<<"result", v>>, <<"error", PyNone>>})

C1_Witness ==
    /\ Called
    /\ IsDict(request)
    /\ Get(request, "action", PyStr("")) = PyStr("deckNames")
    /\ AskedVersion = 6
    /\ col
    /\ outcome.value = PyDict({<<"result", PyList(<<PyStr("Default")>>)>>, <<"error", PyNone>>})

\* C3: a request with a version above 4 that names no registered action gets
\* the envelope with result null and the error "unsupported action", and no
\* handler body runs.
C3_UnsupportedAction ==
    (Called /\ IsDict(request) /\ AskedVersion > 4
        /\ Get(request, "action", PyStr("")) \notin {PyStr(n) : n \in ApiNames}) =>
        /\ outcome.kind = "return"
        /\ outcome.value = PyDict({<<"result", PyNone>>,
                                   <<"error", PyStr("unsupported action")>>})
        /\ outcome.calls = << >>

C3_Witness ==
    /\ Called
    /\ IsDict(request)
    /\ Get(request, "action", PyStr("")) = PyStr("handler")
    /\ AskedVersion = 6
    /\ ErrorOf(outcome.value) = PyStr("unsupported action")

\* C4 (as claimed): a request with version <= 4, or with no version, whose
\* call fails gets the bare value null, not a {result, error} mapping.
C4_FailureUnwrapped ==
    (Called /\ IsDict(request) /\ AskedVersion <= 4 /\ Fails(request, col)) =>
        outcome.value = PyNone

\* C5 (as claimed): with a version above 4, exactly one of result and error
\* is non-null after the call.
C5_ExactlyOneNonNull ==
    (Called /\ IsDict(request) /\ AskedVersion > 4) =>
        /\ IsEnvelope(outcome.value)
        /\ (ResultOf(outcome.value) = PyNone) # (ErrorOf(outcome.value) = PyNone)

\* C5 (amended): with a version above 4 the reply is the two-key envelope,
\* result and error are never both non-null, error is non-null exactly when
\* the call failed, and both are null exactly when the handler completed
\* returning null (no value).
C5_AtMostOneNonNull ==
    (Called /\ IsDict(request) /\ AskedVersion > 4) =>
        /\ IsEnvelope(outcome.value)
        /\ ~(ResultOf(outcome.value) # PyNone /\ ErrorOf(outcome.value) # PyNone)
        /\ (ErrorOf(outcome.value) # PyNone) <=> Fails(request, col)
        /\ (ResultOf(outcome.value) = PyNone /\ ErrorOf(outcome.value) = PyNone)
               <=> (~Fails(request, col) /\ Call(request, col).value = PyNone)

C5_Witness ==
    /\ Called
    /\ IsDict(request)
    /\ Get(request, "action", PyStr("")) = PyStr("sync")
    /\ AskedVersion = 6
    /\ outcome.value = PyDict({<<"result", PyNone>>, <<"error", PyNone>>})

\* The batch of a multi request whose arguments bind, and the entries of the
\* sequence it returned.
IsBatch(req) ==
    /\ IsDict(req)
    /\ Get(req, "action", PyStr("")) = PyStr("multi")
    /\ IsDict(Get(req, "params", EmptyDict))
    /\ Keys(Get(req, "params", EmptyDict)) = {"actions"}
    /\ Get(Get(req, "params", EmptyDict), "actions", PyNone).t = "list"
BatchOf(req) == Get(Get(req, "params", EmptyDict), "actions", PyNone).v
EnvelopeBatch(req) == IsBatch(req) /\ \A i \in DOMAIN BatchOf(req) : IsDict(BatchOf(req)[i])
EntriesOf(req, reply) ==
    IF Get(req, "version", PyInt(4)).v <= 4 THEN reply ELSE ResultOf(reply)
CarriesError(entry) == IsEnvelope(entry) /\ ErrorOf(entry) # PyNone
WithSub(req, k, sub) ==
    Put(req, "params",
        PyDict({<<"actions", PyList([BatchOf(req) EXCEPT ![k] = sub])>>}))

\* C6: multi on N request envelopes returns N entries, entry i being the reply
\* of dispatching sub-request i on its own, in input order; exactly the
\* entries of failing sub-requests carry an error, and putting another
\* envelope in place of sub-request k leaves the other entries as they are.
C6_BatchIsolation ==
    (Called /\ EnvelopeBatch(request)) =>
        LET batch == BatchOf(request)
            entries == EntriesOf(request, outcome.value)
        IN  /\ outcome.kind = "return"
            /\ entries.t = "list"
            /\ Len(entries.v) = Len(batch)
            /\ \A i \in DOMAIN batch :
                /\ entries.v[i] = handler(batch[i], col).value
                /\ CarriesError(entries.v[i]) <=> Fails(batch[i], col)
            /\ \A k \in DOMAIN batch : \A sub \in SubRequests \ {NotADict} :
                LET other == EntriesOf(request, handler(WithSub(request, k, sub), col).value)
                IN  /\ Len(other.v) = Len(batch)
                    /\ \A i \in DOMAIN batch \ {k} : other.v[i] = entries.v[i]

C6_Witness ==
    /\ Called
    /\ EnvelopeBatch(request)
    /\ AskedVersion = 6
    /\ Len(BatchOf(request)) = 2
    /\ Get(BatchOf(request)[1], "action", PyStr("")) = PyStr("nope")
    /\ CarriesError(ResultOf(outcome.value).v[1])
    /\ ResultOf(outcome.value).v[2] = PyInt(API_VERSION)

\* C7 (as claimed): every entry of the sequence produced by multi is a bare
\* result value, never a {result, error} mapping, whatever version each
\* sub-request carries.
C7_EntriesBare ==
    (Called /\ EnvelopeBatch(request)) =>
        \A i \in DOMAIN BatchOf(request) :
            ~IsEnvelope(EntriesOf(request, outcome.value).v[i])

\* C7 (amended): an entry of the sequence produced by multi is a bare result
\* value when its sub-request has version <= 4 (or none) and its call
\* succeeds, and is the {result, error} mapping when its sub-request has a
\* version above 4; the version of the multi request itself changes no entry.
C7_EntriesPerSubVersion ==
    (Called /\ EnvelopeBatch(request)) =>
        LET batch == BatchOf(request)
            entries == EntriesOf(request, outcome.value).v
        IN  \A i \in DOMAIN batch :
                LET v == Get(batch[i], "version", PyInt(4)).v
                IN  /\ (v <= 4 /\ ~Fails(batch[i], col)) =>
                        (~IsEnvelope(entries[i]) /\ entries[i] = Call(batch[i], col).value)
                    /\ v > 4 => IsEnvelope(entries[i])
                    /\ \A w \in 3..MaxVersion :
                        EntriesOf(Put(request, "version", PyInt(w)),
                                  handler(Put(request, "version", PyInt(w)), col).value).v[i]
                            = entries[i]

C7_Witness ==
    /\ Called
    /\ EnvelopeBatch(request)
    /\ "version" \notin Keys(request)
    /\ Len(BatchOf(request)) = 2
    /\ outcome.value.v[1] = PyDict({<<"result", PyInt(API_VERSION)>>, <<"error", PyNone>>})
    /\ outcome.value.v[2] = PyInt(API_VERSION)

\* C8: AnkiConnect.handler never raises to its caller on a request envelope:
\* an unknown action, a failure raised by the handler and arguments that do
\* not bind each end in a returned reply whose error is a string, for a
\* top-level call and for each entry of a multi batch.
C8_NeverRaises ==
    (Called /\ IsDict(request)) =>
        /\ outcome.kind = "return"
        /\ Fails(request, col) =>
               (IsEnvelope(outcome.value) /\ ErrorOf(outcome.value).t = "str")
        /\ EnvelopeBatch(request) =>
               \A i \in DOMAIN BatchOf(request) :
                   Fails(BatchOf(request)[i], col) =>
                       LET entry == EntriesOf(request, outcome.value).v[i]
                       IN  IsEnvelope(entry) /\ ErrorOf(entry).t = "str"

C8_Witness ==
    /\ Called
    /\ ~col
    /\ EnvelopeBatch(request)
    /\ Len(BatchOf(request)) = 2
    /\ Get(BatchOf(request)[1], "action", PyStr("")) = PyStr("deckNames")
    /\ "params" \notin Keys(BatchOf(request)[1])
    /\ "params" \in Keys(BatchOf(request)[2])
    /\ outcome.kind = "return"
    /\ \A i \in 1..2 : CarriesError(EntriesOf(request, outcome.value).v[i])

(***************************************************************************)
(* Properties of name resolution.                                          *)
(***************************************************************************)
\* The pairs of the entry that qualify at the asked version, and those among
\* them with the largest minVersion.
Qualifying == {p \in Range(rsEntry.versions) : 0 < p[1] /\ p[1] <= rsVersion}
Largest == {p \in Qualifying : \A q \in Qualifying : q[1] <= p[1]}

\* C2: at every version an entry answers to exactly one name: the alias of
\* the pair with the largest minVersion in 0 < minVersion <= version,
\* whatever the order of the pairs, and its declared name when no pair
\* qualifies.
C2_VersionResolution ==
    rsDone =>
        /\ Cardinality(rsAnswers) = 1
        /\ Qualifying = {} => rsAnswers = {rsEntry.name}
        /\ Qualifying # {} => rsAnswers \subseteq {p[2] : p \in Largest}

C2_Witness ==
    /\ rsDone
    /\ rsEntry.versions = << <<5, "bar">>, <<2, "foo">> >>
    /\ rsVersion = 3
    /\ rsAnswers = {"foo"}


(***************************************************************************)
(* Properties of the server.                                               *)
(***************************************************************************)
LiveIds == OpenIds(clients)

\* The whole response reached the peer and the server closed the connection.
Responded(id) == conns[id].delivered # "" /\ conns[id].closed

\* The peer shut down, or its connection was reset.
PeerLeft(id) == conns[id].eof \/ conns[id].reset # "no"

\* C9: when a receive or a send on a connection failed during the last
\* WebServer.advance, that connection is closed and out of the live set,
\* every connection that was live in that call was advanced in it, and the
\* listening socket is open.
C9_PeerErrorIsolated ==
    tick.failed # {} =>
        /\ \A id \in tick.failed : conns[id].closed /\ id \notin LiveIds
        /\ tick.advanced = tick.live
        /\ srvSock

\* C10: under repeated ticks, a connection from which a complete request was
\* taken gets its response and is then closed, unless the peer left.
C10_EventuallyAnswered ==
    \A id \in ConnIds :
        (conns[id].handled >= 1) ~> (Responded(id) \/ PeerLeft(id))

\* The response of a connection went out whole, and the server closed it.
Flushed(id) == conns[id].flushed

\* C11: a connection whose reply went out whole is closed in that advance of
\* the client, and it is out of self.clients once a further WebServer.advance
\* has ended.
C11_OneShot ==
    \A id \in ConnIds :
        /\ Flushed(id) => \A k \in 1..Len(clients) : clients[k].id = id => ~clients[k].open
        /\ (Flushed(id) /\ id \in tick.wasClosed) => id \notin ListIds(clients)

\* C12: over the lifetime of a connection the request handler is called at
\* most once for it, whatever the interleaving of arriving bytes, partial
\* sends and calls of WebServer.advance.
C12_OneRequestPerConnection == \A id \in ConnIds : conns[id].handled <= 1

\* C13: the last WebServer.advance accepted at most one of the pending peers
\* (one if any was pending), advanced every connection of self.clients, the
\* accepted one included, and left in self.clients those whose advance did
\* not return False.
C13_AcceptOneAdvanceAll ==
    /\ Cardinality(tick.accepted) <= 1
    /\ tick.pending > 0 => Cardinality(tick.accepted) = 1
    /\ tick.accepted \subseteq tick.iterated
    /\ tick.advanced = tick.iterated
    /\ ListIds(clients) = tick.iterated \ tick.finished

\* The bytes of a peer that recv has returned so far.
ReceivedOf(id) == Slice(conns[id].msg, 0, conns[id].sent - Len(conns[id].inbox))

\* The open WebClient of a connection, if there is one.
ClientsOf(id) == {k \in 1..Len(clients) : clients[k].id = id /\ clients[k].open}

\* C14: for a message that parses when it is there whole, as long as the
\* bytes received are not a complete request parseRequest reports incomplete,
\* readBuff holds every byte received and nothing is queued; and the request
\* handed to the handler once the rest has arrived has the headers and the
\* body of the message parsed in one piece, however the message was cut.
C14_PartialDelivery ==
    \A id \in ConnIds :
        parseRequest(conns[id].msg).kind = "request" =>
            /\ \A k \in ClientsOf(id) :
                   (conns[id].handled = 0 /\ ~PeerLeft(id)) =>
                       /\ clients[k].readBuff = ReceivedOf(id)
                       /\ clients[k].writeBuff = ""
                       /\ parseRequest(clients[k].readBuff).kind = "none"
            /\ conns[id].handled = 1 =>
                   /\ conns[id].got.headers = parseRequest(conns[id].msg).headers
                   /\ conns[id].got.body = parseRequest(conns[id].msg).body

C14_Witness ==
    /\ conns[1].msg = "content-length: 35\r\n\r\n" \o VersionBody
    /\ conns[1].recvs >= 3
    /\ conns[1].handled = 1
    /\ conns[1].got.body = VersionBody
    /\ conns[1].got.headers = << <<"content-length", <<"35">> >> >>

(***************************************************************************)
(* Properties of the codec.                                                *)
(***************************************************************************)
\* The header list of the last response: getHeaders() after setHeader.
SuppliedHeaders == getHeaders(codec.opt)

\* C15: parsing the bytes of a response reports a complete request whose body
\* is the body of the response and whose headers give, under the lowercased
\* name, the value each header of the response was built with (none for the
\* status line).
C15_RoundTrip ==
    codec.stage = "parsed" =>
        /\ codec.parsed.kind = "request"
        /\ codec.parsed.body = codec.body
        /\ \A i \in DOMAIN SuppliedHeaders :
               /\ HasItem(codec.parsed.headers, Lower(SuppliedHeaders[i][1]))
               /\ ItemOf(codec.parsed.headers, Lower(SuppliedHeaders[i][1]))
                      = SuppliedHeaders[i][2]

\* The header lines of the last response, and those that give Content-Length.
ResponseLines == Split(SplitOnce(codec.resp, CRLF \o CRLF)[1], CRLF)
LengthLines ==
    {i \in DOMAIN ResponseLines : Slice(ResponseLines[i], 0, 16) = "Content-Length: "}

\* C16: a response has exactly one Content-Length line, and it gives the
\* length of the body of that response, whatever the lengths of the bodies
\* of the responses the server built before.
C16_ContentLength ==
    codec.stage = "built" =>
        /\ Cardinality(LengthLines) = 1
        /\ \A i \in LengthLines :
               ResponseLines[i] = "Content-Length: " \o StrOf(Len(codec.body))
        /\ codec.resp = HeaderLines(SuppliedHeaders) \o CRLF \o codec.body

C16_Witness ==
    /\ codec.stage = "built"
    /\ codec.lengths = <<15, 4>>
    /\ codec.body = "null"
    /\ LengthLines # {}
    /\ \A i \in LengthLines : ResponseLines[i] = "Content-Length: 4"

(***************************************************************************)
(* Properties of the request handler of the server.                        *)
(***************************************************************************)
StatusLine == "HTTP/1.1 200 OK" \o CRLF

\* What handlerWrapper does with the request the server took last from a
\* connection.
WrapperOutcome(id) == handlerWrapper(conns[id].got, headersOpt, col)

\* C17: for every complete request, whatever its body, handlerWrapper returns
\* a response that begins with the status line HTTP/1.1 200 OK; no exception
\* leaves it.
C17_AlwaysStatus200 ==
    \A id \in ConnIds :
        conns[id].handled >= 1 =>
            /\ WrapperOutcome(id).kind = "return"
            /\ Slice(WrapperOutcome(id).resp, 0, Len(StatusLine)) = StatusLine

(***************************************************************************)
(* Properties of the framing of requests.                                  *)
(***************************************************************************)
\* The headers of the message of a peer.
HeadersOf(msg) == ParseHeaders(Split(SplitOnce(msg, CRLF \o CRLF)[1], CRLF), << >>)

\* The message has no content-length header.
LengthAbsent(msg) == ~HasItem(HeadersOf(msg), "content-length")

\* The message has a content-length header that gives no integer.
LengthUnparsable(msg) ==
    /\ HasItem(HeadersOf(msg), "content-length")
    /\ \/ ~HasValue(ItemOf(HeadersOf(msg), "content-length"))
       \/ ~IsInt(ItemOf(HeadersOf(msg), "content-length")[1])

\* recv has returned the blank line that ends the header block.
SeparatorReceived(id) == Find(ReceivedOf(id), CRLF \o CRLF) >= 0

\* C18: when the content-length header is absent or gives no integer, the
\* request is complete with an empty body as soon as the blank line is
\* buffered: the server has taken it from the connection, and nothing was
\* raised.
C18_UnparsableLengthIsZero ==
    \A id \in ConnIds :
        (/\ LengthAbsent(conns[id].msg) \/ LengthUnparsable(conns[id].msg)
         /\ SeparatorReceived(id)
         /\ ~PeerLeft(id)) =>
            /\ parseRequest(ReceivedOf(id)).kind = "request"
            /\ conns[id].handled >= 1
            /\ conns[id].got.body = ""

(***************************************************************************)
(* Properties of the life of a connection.                                 *)
(***************************************************************************)
\* C19: an accepted connection from which no request was taken and whose
\* peer stays is in self.clients, open, with every received byte in readBuff;
\* and an accepted connection that is not in self.clients was closed by the
\* server, after the peer closed (zero-byte read) or after the reply went
\* out whole.
C19_NoTimeout ==
    \A id \in ConnIds :
        conns[id].state = "accepted" =>
            /\ (conns[id].handled = 0 /\ ~PeerLeft(id)) =>
                   /\ ClientsOf(id) # {}
                   /\ \A k \in ClientsOf(id) : clients[k].readBuff = ReceivedOf(id)
            /\ id \notin ListIds(clients) =>
                   /\ conns[id].closed
                   /\ conns[id].flushed \/ conns[id].eof

C19_Witness ==
    /\ conns[1].state = "accepted" /\ conns[1].handled = 0 /\ ~PeerLeft(1)
    /\ conns[1].recvs = 1 /\ conns[1].todo # ""
    /\ \E k \in ClientsOf(1) : clients[k].readBuff = "Co"
    /\ conns[2].flushed /\ 2 \in tick.wasClosed /\ 2 \notin ListIds(clients)
    /\ 1 \in tick.advanced

(***************************************************************************)
(* Properties of the binding of params.                                    *)
(***************************************************************************)
\* The method the request is dispatched to, where there is one.
TargetIndex == FindMethod(Get(request, "action", PyStr("")), AskedVersion)
HasTarget == IsDict(request) /\ TargetIndex # 0
Target == Members[TargetIndex]
ParamsOf == Get(request, "params", EmptyDict)
ParamNames(member) == member.required \cup member.optional

\* The call failed before the body of any method ran, and the reply carries
\* the error.
FailedUnrun ==
    /\ outcome.kind = "return"
    /\ ErrorOf(outcome.value) # PyNone
    /\ outcome.calls = << >>

\* C20 as stated: when the keys of params are not exactly the parameter names
\* of the action, the call fails, the body is not executed and the reply
\* carries the error.
C20_ExactParams ==
    (Called /\ HasTarget /\ IsDict(ParamsOf) /\ Keys(ParamsOf) # ParamNames(Target)) =>
        FailedUnrun

\* C20 amended: the call fails that way when params holds a key that is no
\* parameter of the action or lacks a parameter that has no default; with
\* every key a parameter and every parameter without default present, the
\* body of the action runs.
C20_RequiredParams ==
    (Called /\ HasTarget /\ IsDict(ParamsOf)) =>
        /\ (\/ ~(Keys(ParamsOf) \subseteq ParamNames(Target))
            \/ ~(Target.required \subseteq Keys(ParamsOf))) => FailedUnrun
        /\ (/\ Keys(ParamsOf) \subseteq ParamNames(Target)
            /\ Target.required \subseteq Keys(ParamsOf)) =>
               /\ outcome.calls # << >>
               /\ Head(outcome.calls) = Target.name

C20_Witness ==
    /\ Called /\ HasTarget
    /\ Target.name = "deleteDecks"
    /\ ParamsOf = PyDict({<<"decks", PyList(<< >>)>>, <<"bogus", PyInt(1)>>})
    /\ AskedVersion = 6
    /\ outcome.value = PyDict({<<"result", PyNone>>, <<"error", PyStr("unexpected arguments")>>})
    /\ outcome.calls = << >>

(***************************************************************************)
(* Properties of the replies that are no JSON object.                      *)
(***************************************************************************)
\* The header lines of a response whose body has n bytes, as the peer reads
\* them.
ReplyHead(n) ==
    StatusLine \o "Content-Type: text/json" \o CRLF \o
    "Access-Control-Allow-Origin: *" \o CRLF \o
    "Content-Length: " \o StrOf(n) \o CRLF \o CRLF

NullReply == ReplyHead(4) \o "null"

\* The bytes of the reply the server has still to send on a connection.
Unsent(id) ==
    IF ClientsOf(id) = {} THEN "" ELSE clients[CHOOSE k \in ClientsOf(id) : TRUE].writeBuff

\* The request taken from the connection has a body that is no JSON.
BadJson(id) ==
    /\ conns[id].handled >= 1
    /\ conns[id].got.body # ""
    /\ ~JsonLoads(conns[id].got.body).ok

IsPrefix(a, b) == Len(a) <= Len(b) /\ Slice(b, 0, Len(a)) = a

\* C21: on a connection whose complete request has a non-empty body that is
\* no JSON, self.handler was not called, the reply sent and queued is the
\* status line 200, the headers and the body null, and once its last byte
\* went out the peer has exactly that reply and the connection is closed.
C21_InvalidJsonIsNull ==
    \A id \in ConnIds :
        BadJson(id) =>
            /\ conns[id].dispatched = 0
            /\ conns[id].handled = 1
            /\ IsPrefix(conns[id].delivered, NullReply)
            /\ ClientsOf(id) # {} => conns[id].delivered \o Unsent(id) = NullReply
            /\ conns[id].flushed =>
                   /\ conns[id].delivered = NullReply
                   /\ conns[id].closed
                   /\ ClientsOf(id) = {}

C21_Witness ==
    /\ BadJson(1)
    /\ conns[1].got.body = "x"
    /\ conns[1].flushed
    /\ conns[1].delivered = NullReply
    /\ conns[1].dispatched = 0
    /\ conns[2].state = "accepted"

BannerReply == ReplyHead(15) \o "AnkiConnect v.6"

EndsWith(data, tail) == Len(tail) <= Len(data) /\ From(data, Len(data) - Len(tail)) = tail

\* The content-length of the message is absent, zero or negative: the body
\* of the request is empty.
ZeroBody(msg) ==
    \/ LengthAbsent(msg)
    \/ /\ ~LengthUnparsable(msg)
       /\ IntOf(ItemOf(HeadersOf(msg), "content-length")[1]) <= 0

\* C22: a request taken with an empty body is answered by the status line,
\* the headers and the banner AnkiConnect v.6 as body, and self.handler is
\* not called; and when the message declares no body, the request is taken
\* in the advance that receives the blank line.
C22_EmptyBodyBanner ==
    \A id \in ConnIds :
        /\ (conns[id].handled >= 1 /\ conns[id].got.body = "") =>
               /\ conns[id].dispatched = 0
               /\ WrapperOutcome(id).kind = "return"
               /\ SplitOnce(WrapperOutcome(id).resp, CRLF \o CRLF)[2] = "AnkiConnect v.6"
               /\ (ClientsOf(id) # {} \/ conns[id].flushed) =>
                      EndsWith(conns[id].delivered \o Unsent(id), BannerReply)
        /\ (ZeroBody(conns[id].msg) /\ SeparatorReceived(id) /\ ~PeerLeft(id)) =>
               /\ parseRequest(ReceivedOf(id)).kind = "request"
               /\ parseRequest(ReceivedOf(id)).body = ""
               /\ conns[id].handled >= 1
               /\ conns[id].got.body = ""

C22_Witness ==
    /\ conns[1].msg = "Content-Length: 0\r\n\r\n"
    /\ conns[1].recvs >= 2
    /\ conns[1].handled = 1
    /\ conns[1].got.body = ""
    /\ conns[1].dispatched = 0
    /\ conns[1].flushed
    /\ conns[1].delivered = BannerReply

(***************************************************************************)
(* Properties of WebClient.close.                                          *)
(***************************************************************************)
\* The client is as close() leaves it, close() again changes nothing, and
\* advance on it returns False and touches neither the client, the socket
\* nor the headers of the server.
Terminal(cl, cn, opt, c) ==
    /\ ~cl.open /\ cl.readBuff = "" /\ cl.writeBuff = ""
    /\ ClientClose(cl) = cl
    /\ ClientAdvance(cl, cn, opt, c) = Step(cl, cn, opt, "False", FALSE)

\* One step of the server and its peers, seen from the closed connections.
ClosedStays ==
    /\ \A k \in 1..Len(clients') :
           ~clients'[k].open =>
               Terminal(clients'[k], conns'[clients'[k].id], headersOpt', col')
    /\ \A id \in ConnIds :
           conns[id].closed =>
               /\ conns'[id] = conns[id]
               /\ \A j \in 1..Len(clients') : clients'[j].id = id => ~clients'[j].open
    /\ \A k \in 1..Len(clients) :
           ~clients[k].open =>
               \A j \in 1..Len(clients') :
                   clients'[j].id = clients[k].id => clients'[j] = clients[k]

\* C23: a closed WebClient has no socket and empty buffers, a second close
\* leaves it as it is, and every step leaves it closed: an advance of it
\* returns False, and nothing is received, sent or handled on its connection.
C23_CloseIsTerminal == [][ClosedStays]_vars

\* A closed client that an exception kept in self.clients was advanced again.
C23_Witness ==
    /\ 1 \in tick.wasClosed
    /\ 1 \in tick.advanced
    /\ 1 \in tick.finished
    /\ \E k \in 1..Len(clients) : clients[k].id = 1 /\ ~clients[k].open
    /\ conns[1].handled = 1

(***************************************************************************)
(* Properties of WebServer.close.                                          *)
(***************************************************************************)
\* What a call of WebServer.close leaves: no listening socket, no client
\* in self.clients, every connection that was in self.clients closed and
\* nothing received, sent or handled on it; a further close changes nothing,
\* and so does a close of a server without socket and clients.
CloseEffect ==
    /\ ~srvSock'
    /\ clients' = << >>
    /\ \A id \in ListIds(clients) :
           /\ conns'[id].closed
           /\ conns'[id] = [conns[id] EXCEPT !.closed = TRUE]
    /\ \A id \in ConnIds \ (ListIds(clients) \cup Range(backlog)) : conns'[id] = conns[id]
    /\ CloseServer([sock |-> srvSock', clients |-> clients', conns |-> conns',
                    backlog |-> backlog'])
           = [sock |-> srvSock', clients |-> clients', conns |-> conns', backlog |-> backlog']
    /\ (~srvSock /\ clients = << >>) => UNCHANGED vars

\* C24: every call of WebServer.close has that effect.
C24_ServerCloseIdempotent == [][ServerClose => CloseEffect]_vars

\* Two connections that were open, one with a request half received and one
\* with a reply half sent, closed by WebServer.close.
C24_Witness ==
    /\ ~srvSock
    /\ clients = << >>
    /\ \A id \in {1, 2} :
           conns[id].state = "accepted" /\ conns[id].closed
               /\ ~conns[id].flushed /\ ~conns[id].eof
    /\ conns[1].handled = 0 /\ conns[1].recvs = 1
    /\ conns[2].handled = 1 /\ conns[2].delivered # ""

(***************************************************************************)
(* Properties of the framing of responses.                                 *)
(***************************************************************************)
\* The header block of a response.
Framing(resp) == SplitOnce(resp, CRLF \o CRLF)[1]

\* The body is a JSON object.
WellFormed(body) == JsonLoads(body).ok /\ IsDict(JsonLoads(body).value)

\* The reply of the handler to the request does not depend on the collection.
Stateless(body) ==
    handler(JsonLoads(body).value, TRUE) = handler(JsonLoads(body).value, FALSE)

\* C25: two requests with the same well-formed body, answered with the
\* handler in the same state (or by a handler that has no state), get
\* responses with the same header block, Content-Length included, whatever
\* was answered before and between them.
C25_SameFraming ==
    \A i, j \in DOMAIN codec.log :
        (/\ codec.log[i].body = codec.log[j].body
         /\ WellFormed(codec.log[i].body)
         /\ codec.log[i].col = codec.log[j].col \/ Stateless(codec.log[i].body)) =>
            /\ codec.log[i].kind = "return"
            /\ codec.log[j].kind = "return"
            /\ Framing(codec.log[i].resp) = Framing(codec.log[j].resp)

C25_Witness ==
    /\ Len(codec.log) = 3
    /\ codec.log[1].body = VersionBody /\ codec.log[1].col
    /\ codec.log[2].body = ""
    /\ codec.log[3].body = VersionBody /\ ~codec.log[3].col
    /\ Framing(codec.log[1].resp) = Framing(codec.log[3].resp)
    /\ Framing(codec.log[2].resp) # Framing(codec.log[3].resp)

(***************************************************************************)
(* Properties of the buffers of a connection.                              *)
(***************************************************************************)
\* C26: as long as no request was taken from a connection, nothing was sent
\* on it, the write buffer of its client is empty, and the read buffer of
\* its open client holds the bytes recv returned, all of them and in the
\* order they were sent by the peer.
C26_NoReplyBeforeRequest ==
    \A id \in ConnIds :
        conns[id].handled = 0 =>
            /\ conns[id].delivered = ""
            /\ IsPrefix(conns[id].rcvd, conns[id].msg)
            /\ \A k \in 1..Len(clients) :
                   clients[k].id = id =>
                       /\ clients[k].writeBuff = ""
                       /\ clients[k].open => clients[k].readBuff = conns[id].rcvd

C26_Witness ==
    /\ conns[1].msg = "Content-Length: 1\r\n\r\nx"
    /\ conns[1].handled = 0
    /\ conns[1].recvs = 3
    /\ conns[1].rcvd = "Content-Length: 1\r\n\r\n"
    /\ conns[1].delivered = ""
    /\ \E k \in ClientsOf(1) :
           clients[k].readBuff = conns[1].rcvd /\ clients[k].writeBuff = ""

\* C27: the bytes delivered on a connection are a prefix of the replies
\* queued on it; while its client is open the bytes delivered followed by
\* writeBuff are those replies; the write path has closed it only with every
\* byte delivered; and a connection closed with bytes undelivered was closed
\* by the read path, on a zero-byte read.
C27_PartialSend ==
    \A id \in ConnIds :
        /\ IsPrefix(conns[id].delivered, conns[id].queued)
        /\ \A k \in ClientsOf(id) :
               conns[id].delivered \o clients[k].writeBuff = conns[id].queued
        /\ conns[id].flushed =>
               /\ conns[id].closed
               /\ conns[id].queued # ""
               /\ conns[id].delivered = conns[id].queued
        /\ (conns[id].closed /\ conns[id].delivered # conns[id].queued) =>
               conns[id].eof /\ ~conns[id].flushed

\* A reply that went out in two pieces, the first as long as the send buffer.
C27_Witness ==
    /\ conns[1].msg = "Content-Length: 1\r\n\r\nx"
    /\ conns[1].flushed
    /\ conns[1].delivered = NullReply
    /\ conns[1].room = 2 * SendBuf - Len(NullReply)

(***************************************************************************)
(* Properties of the header lines of a request.                            *)
(***************************************************************************)
\* The lines of the header block of a message.
LinesOf(msg) == Split(SplitOnce(msg, CRLF \o CRLF)[1], CRLF)

\* The name and the value of a line cut at its first colon and blank; the
\* whole line and no value where it has none.
NameOf(line) == SplitOnce(line, ": ")[1]
ValueOf(line) ==
    IF Len(SplitOnce(line, ": ")) = 1 THEN NoValue ELSE <<SplitOnce(line, ": ")[2]>>

\* C28: the headers of the request taken from a connection hold, for every
\* line of the header block, under the lowercased text before the first
\* colon and blank, everything after it; and under the lowercased line, no
\* value, where the line has no colon and blank.
C28_SplitAtFirstColon ==
    \A id \in ConnIds :
        conns[id].handled >= 1 =>
            \A line \in Range(LinesOf(conns[id].msg)) :
                /\ HasItem(conns[id].got.headers, Lower(NameOf(line)))
                /\ ItemOf(conns[id].got.headers, Lower(NameOf(line))) = ValueOf(line)

(***************************************************************************)
(* Properties of the extraction of a request.                              *)
(***************************************************************************)
\* The length of the header block of the buffer, the blank line included.
HeaderBlockLength(buff) == Find(buff, CRLF \o CRLF) + 4

\* The body length the headers declare.
BodyLength(headers) ==
    IF HasItem(headers, "content-length")
    THEN IntOf(ItemOf(headers, "content-length")[1])
    ELSE 0

\* C29: the body of the request taken last from a connection has the
\* declared number of bytes, which are those of the buffer from the end of
\* the header block on; the length returned is the sum of the two and not
\* less than the header block; and readBuff keeps what followed header block
\* and body in the buffer.
C29_ExactExtraction ==
    \A id \in ConnIds :
        conns[id].handled >= 1 =>
            /\ Len(conns[id].got.body) = BodyLength(conns[id].got.headers)
            /\ conns[id].got.body =
                   Slice(conns[id].taken.buff,
                         HeaderBlockLength(conns[id].taken.buff),
                         HeaderBlockLength(conns[id].taken.buff)
                             + BodyLength(conns[id].got.headers))
            /\ conns[id].taken.length >= HeaderBlockLength(conns[id].taken.buff)
            /\ conns[id].taken.length =
                   HeaderBlockLength(conns[id].taken.buff) + Len(conns[id].got.body)
            /\ conns[id].taken.buff =
                   Slice(conns[id].taken.buff, 0, HeaderBlockLength(conns[id].taken.buff))
                       \o conns[id].got.body \o conns[id].taken.rest

(***************************************************************************)
(* Properties of a zero-byte read.                                         *)
(***************************************************************************)
\* recv on the connection returns no byte: the peer has shut down and
\* everything it sent was received.
ZeroRead(id) == conns[id].eof /\ conns[id].inbox = "" /\ conns[id].reset = "no"

\* A WebServer.advance that advances a client with reply bytes unsent whose
\* recv returns no byte closes that client, empties its buffers and sends
\* nothing on the connection.
ReplyDiscarded ==
    \A id \in ConnIds :
        (/\ ZeroRead(id)
         /\ Unsent(id) # ""
         /\ id \in tick'.advanced
         /\ Tick) =>
            /\ conns'[id].closed
            /\ ~conns'[id].flushed
            /\ conns'[id].delivered = conns[id].delivered
            /\ conns'[id].room = conns[id].room
            /\ \A j \in 1..Len(clients') :
                   clients'[j].id = id =>
                       /\ ~clients'[j].open
                       /\ clients'[j].writeBuff = ""

\* C30: every step of the server is like that.
C30_ZeroReadDiscardsReply == [][ReplyDiscarded]_vars

\* A connection closed on a zero-byte read with a part of its reply sent.
C30_Witness ==
    /\ conns[1].closed
    /\ conns[1].eof
    /\ ~conns[1].flushed
    /\ conns[1].delivered # ""
    /\ conns[1].delivered # conns[1].queued
    /\ IsPrefix(conns[1].delivered, conns[1].queued)
    /\ 1 \in tick.finished

====
